---- MODULE Spec2Model ----
(***************************************************************************)
(* Model of comix: the Book open/edit/close lifecycle (comix/tools.py),    *)
(* the container strategies Cbz, Cbr, Pdf (comix/container.py) and the     *)
(* ComicRack metadata store (comix/metadata.py).                           *)
(*                                                                         *)
(* The archive directory holds the files book.<ext> and book.<ext>.bak.    *)
(* An archive path is the pair <<ext, bak>>.  The working directory is a   *)
(* map from the file names in WsOrder to entries.  Exceptions are named    *)
(* by their Python type.                                                   *)
(***************************************************************************)
EXTENDS Integers, Sequences, FiniteSets, TLC

\* ---------------------------------------------------------------- bounds
\* Number of Book objects constructed one after the other.
MaxBooks == 2
\* Number of changes the callers make to working directories, all Books
\* together.
MaxEdits == 1
\* Number of calls (sets and gets) made on a ComicRack object studied alone.
MaxCalls == 3

\* ------------------------------------------------------------- constants
Suffixes == {"cbz", "cbr", "pdf", "txt", "CBZ"}
Formats == {"cbz", "cbr", "pdf"}
None == "None"
ArchPaths == Suffixes \X BOOLEAN
\* sorted(working_dir.rglob('*')) order of the names the model uses
WsOrder == <<"ComicInfo.xml", "P0.JPG", "p1.png", "p2.png", "sub">>
WsPaths == {"ComicInfo.xml", "P0.JPG", "p1.png", "p2.png", "sub"}
Sidecar == "ComicInfo.xml"
ImageSuffixes == {"p1.png", "p2.png"}
Tags == {"Title", "Series"}
Values == {"Asterix", ""}
RarMagic == <<82, 97, 114, 33, 26, 7>>

\* ----------------------------------------------------- files and entries
NoEntry == [kind |-> "none", mtime |-> 0, data |-> 0, doc |-> <<>>, wf |-> TRUE]
File(m, d) == [kind |-> "file", mtime |-> m, data |-> d, doc |-> <<>>, wf |-> TRUE]
Dir(m) == [kind |-> "dir", mtime |-> m, data |-> 0, doc |-> <<>>, wf |-> TRUE]
XmlFile(m, doc, wf) == [kind |-> "file", mtime |-> m, data |-> 0, doc |-> doc, wf |-> wf]
EmptyTree == [p \in WsPaths |-> NoEntry]

\* A file of the archive directory: its actual kind, what it holds (tree for
\* zip and rar, pages for pdf), a serial number that tells two files of equal
\* content apart, and whether the archiver finished writing it.
NoFile == [kind |-> "none", tree |-> EmptyTree, pages |-> <<>>, ser |-> 0, complete |-> FALSE]
Archive(k, t, s) == [kind |-> k, tree |-> t, pages |-> <<>>, ser |-> s, complete |-> TRUE]

\* The working directory: whether it exists, its entries, and the archive
\* file an archiver run inside it has written there (inner).
NoDir == [exists |-> FALSE, tree |-> EmptyTree, inner |-> NoFile]
TempDir(t) == [exists |-> TRUE, tree |-> t, inner |-> NoFile]

\* First six bytes of a file of each kind ("short" is a file of two bytes).
HeadOf(kind) ==
    CASE kind = "rar" -> RarMagic
      [] kind = "zip" -> <<80, 75, 3, 4, 20, 0>>
      [] kind = "pdf" -> <<37, 80, 68, 70, 45, 49>>
      [] kind = "short" -> <<82, 97>>
      [] OTHER -> <<82, 97, 114, 33, 26, 0>>

VARIABLES fs, ws, path, pc, input_format, output_format, content_old,
          root, err, ops, books, opened, fs0, ws0, wsBase, edits

vars == <<fs, ws, path, pc, input_format, output_format, content_old,
          root, err, ops, books, opened, fs0, ws0, wsBase, edits>>

\* The clock of modification times: it advances with every change the
\* callers make, so a later write never repeats an earlier time.
now == edits + 1
\* The serial number of the file a Book packs (1 and 2 are the initial ones).
serial == books + 1

\* ------------------------------------------------------------ containers
\* Cbz.test: zipfile.is_zipfile, False for a missing file.
CbzTest(f) == f.kind = "zip" /\ f.complete
\* Cbr.test: open() raises for a missing file, else compares six bytes.
CbrTestRaises(f) == f.kind = "none"
\* (variant: only the four bytes "Rar!" are compared)
CbrTest_prefix4(f) ==
    /\ Len(HeadOf(f.kind)) >= 4
    /\ SubSeq(HeadOf(f.kind), 1, 4) = SubSeq(RarMagic, 1, 4)
CbrTest(f) == HeadOf(f.kind) = RarMagic
\* Pdf.test is Container.test: "raise NotImplemented" is a TypeError.
PdfTestRaises == TRUE

\* Book.format getter: suffix.lower() in the three known, else None.
Lower(s) == IF s = "CBZ" THEN "cbz" ELSE s
format(p) == IF Lower(p) \in Formats THEN Lower(p) ELSE None

\* Book.is_valid: result "True", "False" or the exception it raises.
is_valid(inf, f) ==
    CASE inf = "cbz" -> IF CbzTest(f) THEN "True" ELSE "False"
      [] inf = "cbr" -> IF CbrTestRaises(f) THEN "FileNotFoundError"
                        ELSE IF CbrTest(f) THEN "True" ELSE "False"
      [] inf = "pdf" -> IF PdfTestRaises THEN "TypeError" ELSE "True"
      [] OTHER -> "False"

\* Book.snapshot: one {path: mtime} per entry of rglob('*'), sorted.
Existing(tree) == SelectSeq(WsOrder, LAMBDA p : tree[p].kind # "none")
snapshot(tree) ==
    [i \in 1..Len(Existing(tree)) |->
        <<Existing(tree)[i], tree[Existing(tree)[i]].mtime>>]

NoSnap == [set |-> FALSE, snap |-> <<>>]
Snap(s) == [set |-> TRUE, snap |-> s]

\* (variant: every close repacks)
is_changed_always(inf, outf, w, old) == "True"
\* Book.is_changed: "True", "False", or AttributeError when the snapshot is
\* needed and the Book has no working_dir (open() was never called).
is_changed(inf, outf, w, old) ==
    IF inf # outf THEN "True"
    ELSE IF ~w.exists THEN "AttributeError"
    ELSE IF Snap(snapshot(w.tree)) # old THEN "True" ELSE "False"

\* ------------------------------------------------------------- metadata
\* ElementTree.tostring of the children: a None text is written empty.
ToXml(r) == [i \in 1..Len(r) |-> <<r[i][1], IF r[i][2] = None THEN "" ELSE r[i][2]>>]
\* ElementTree.parse: an empty element has text None.
FromXml(d) == [i \in 1..Len(d) |-> <<d[i][1], IF d[i][2] = "" THEN None ELSE d[i][2]>>]
\* (variant: what can be read of a file that does not parse is kept)
ComicRackInit_salvage(tree) ==
    IF tree[Sidecar].kind = "file" THEN FromXml(tree[Sidecar].doc) ELSE <<>>
\* ComicRack.__init__
ComicRackInit(tree) ==
    IF tree[Sidecar].kind = "file" /\ tree[Sidecar].wf
    THEN FromXml(tree[Sidecar].doc) ELSE <<>>

\* One entry of the log of what a Book did: the operation, the strategy it
\* used, its result and the archive path it acted on.
NoArg == <<"", FALSE>>
OpAt(o, f, r, a) == [op |-> o, fmt |-> f, res |-> r, arg |-> a]
Op(o, f, r) == OpAt(o, f, r, NoArg)

\* --------------------------------------------------------------- initial
PlainTree == [EmptyTree EXCEPT !["p1.png"] = File(0, 1), !["p2.png"] = File(0, 2)]
TitledTree == [EmptyTree EXCEPT !["p1.png"] = File(0, 1),
                                ![Sidecar] = XmlFile(0, <<<<"Title", "Obelix">>>>, TRUE)]
\* (a sidecar cut short: the text of a field is there, the file does not parse)
BadXmlTree == [EmptyTree EXCEPT !["p1.png"] = File(0, 1),
                                ![Sidecar] = XmlFile(0, <<<<"Title", "Obelix">>>>, FALSE)]
\* (pages of a scanner: one of them has an upper-case suffix)
ScanTree == [EmptyTree EXCEPT !["P0.JPG"] = File(0, 4), !["p1.png"] = File(0, 1)]
OldBak == Archive("junk", EmptyTree, 2)

\* The directory before the first Book: <<extension of the archive, its
\* content, whether a .bak of an earlier run lies next to it, whether the
\* same book exported as pdf (Sibling) lies next to it>>.
Sibling == Archive("pdf", EmptyTree, 2)
InitDirs ==
    { <<"cbz", Archive("zip", PlainTree, 1), TRUE, FALSE>>,
      <<"cbz", Archive("zip", BadXmlTree, 1), FALSE, FALSE>>,
      <<"cbr", Archive("rar", PlainTree, 1), FALSE, TRUE>>,
      <<"cbr", Archive("junk", EmptyTree, 1), FALSE, FALSE>>,
      <<"cbr", Archive("short", EmptyTree, 1), FALSE, FALSE>>,
      <<"CBZ", Archive("zip", ScanTree, 1), FALSE, FALSE>> }

Init ==
    /\ \E d \in InitDirs :
          fs = [a \in ArchPaths |->
                  IF a = <<d[1], FALSE>> THEN d[2]
                  ELSE IF a = <<d[1], TRUE>> /\ d[3] THEN OldBak
                  ELSE IF a = <<"pdf", FALSE>> /\ d[4] THEN Sibling
                  ELSE NoFile]
    /\ ws = NoDir
    /\ path = "cbz"
    /\ pc = "idle"
    /\ input_format = None
    /\ output_format = None
    /\ content_old = NoSnap
    /\ root = <<>>
    /\ err = "none"
    /\ ops = <<>>
    /\ books = 0
    /\ opened = NoFile
    /\ fs0 = fs
    /\ ws0 = NoDir
    /\ wsBase = EmptyTree
    /\ edits = 0

\* Book.__init__: no I/O.  The previous Book is dropped, and with it its
\* TemporaryDirectory, whose finalizer removes the directory.
BookOn(paths) ==
    /\ pc \in {"idle", "failed", "closed", "raised"}
    /\ books < MaxBooks
    /\ \E p \in paths :
        /\ path' = p
        /\ input_format' = format(p)
        /\ output_format' = format(p)
    /\ pc' = "new"
    /\ books' = books + 1
    /\ content_old' = NoSnap
    /\ ws' = NoDir
    /\ root' = <<>>
    /\ err' = "none"
    /\ ops' = <<>>
    /\ opened' = NoFile
    /\ wsBase' = EmptyTree
    /\ fs0' = fs
    /\ ws0' = NoDir
    /\ UNCHANGED <<fs, edits>>

BookInit == BookOn(Suffixes)

\* ------------------------------------------------------------------ open
\* Container.unpack of a valid archive: the entries of the archive, with
\* the modification times it stores (unzip and unrar restore them).
Unpacked(f) == f.tree

\* What unpack can raise for a strategy: the external program fails
\* (CalledProcessError) or, for Cbr, unrar is not installed.
UnpackErrors(inf) ==
    IF inf = "cbr" THEN {"CalledProcessError", "FileNotFoundError"}
    ELSE {"CalledProcessError"}

\* Book.open: TemporaryDirectory(), unpack() (is_valid, strategy unpack,
\* baseline snapshot), ComicRack(working_dir).  open() does not read the
\* output format, so the caller who assigns it is taken to do so after
\* open(), or on a Book it closes unopened.
open ==
    /\ pc = "new"
    /\ output_format = input_format
    /\ LET f == fs[<<path, FALSE>>]
           v == is_valid(input_format, f)
           tested == IF input_format \in Formats
                     THEN <<Op("test", input_format, v)>> ELSE <<>>
           dir == TempDir(EmptyTree)
       IN  IF v # "True"
           THEN /\ ws' = dir
                /\ err' = IF v = "False" THEN "TypeError" ELSE v
                /\ pc' = "failed"
                /\ ops' = ops \o <<Op("mkdtemp", None, "ok")>> \o tested
                /\ UNCHANGED <<content_old, root, opened, wsBase>>
           ELSE \/ LET t == Unpacked(f) IN
                     /\ f.complete
                     /\ ws' = TempDir(t)
                     /\ content_old' = Snap(snapshot(t))
                     /\ root' = ComicRackInit(t)
                     /\ opened' = f
                     /\ wsBase' = t
                     /\ err' = "none"
                     /\ pc' = "open"
                     /\ ops' = ops \o <<Op("mkdtemp", None, "ok")>> \o tested
                                   \o <<Op("unpack", input_format, "ok"),
                                        Op("snapshot", None, "ok")>>
                \/ \E e \in UnpackErrors(input_format) :
                     /\ ws' = dir
                     /\ err' = e
                     /\ pc' = "failed"
                     /\ ops' = ops \o <<Op("mkdtemp", None, "ok")>> \o tested
                                   \o <<Op("unpack", input_format, e)>>
                     /\ UNCHANGED <<content_old, root, opened, wsBase>>
    /\ UNCHANGED <<fs, path, input_format, output_format, books, fs0, ws0,
                   edits>>

\* ------------------------------------------------- the caller, Book open
\* The caller writes a file of the working directory.
write_file ==
    /\ pc = "open"
    /\ edits < MaxEdits
    /\ ws' = [ws EXCEPT !.tree["p2.png"] = File(now + 1, 3)]
    /\ edits' = edits + 1
    /\ ops' = Append(ops, Op("edit", "write", "p2.png"))
    /\ err' = "none"
    /\ UNCHANGED <<fs, path, pc, input_format, output_format, content_old,
                   root, books, opened, fs0, ws0, wsBase>>

\* The caller sets the modification time of an entry, content untouched.
touch ==
    /\ pc = "open"
    /\ edits < MaxEdits
    /\ \E p \in {"p1.png", Sidecar} :
        /\ ws.tree[p].kind # "none"
        /\ ws' = [ws EXCEPT !.tree[p].mtime = now + 1]
        /\ ops' = Append(ops, Op("edit", "touch", p))
    /\ edits' = edits + 1
    /\ err' = "none"
    /\ UNCHANGED <<fs, path, pc, input_format, output_format, content_old,
                   root, books, opened, fs0, ws0, wsBase>>

\* The caller removes an entry of the working directory.
remove ==
    /\ pc = "open"
    /\ edits < MaxEdits
    /\ \E p \in {"p1.png"} :
        /\ ws.tree[p].kind # "none"
        /\ ws' = [ws EXCEPT !.tree[p] = NoEntry]
        /\ ops' = Append(ops, Op("edit", "remove", p))
    /\ edits' = edits + 1
    /\ err' = "none"
    /\ UNCHANGED <<fs, path, pc, input_format, output_format, content_old,
                   root, books, opened, fs0, ws0, wsBase>>

\* The caller creates a subdirectory.
mkdir ==
    /\ pc = "open"
    /\ edits < MaxEdits
    /\ ws.tree["sub"].kind = "none"
    /\ ws' = [ws EXCEPT !.tree["sub"] = Dir(now + 1)]
    /\ edits' = edits + 1
    /\ ops' = Append(ops, Op("edit", "mkdir", "sub"))
    /\ err' = "none"
    /\ UNCHANGED <<fs, path, pc, input_format, output_format, content_old,
                   root, books, opened, fs0, ws0, wsBase>>

\* ComicRack._get: the text of the first child with the tag, else None.
HasTag(r, tag) == \E i \in 1..Len(r) : r[i][1] = tag
IndexOf(r, tag) == CHOOSE i \in 1..Len(r) :
                      r[i][1] = tag /\ \A j \in 1..(i - 1) : r[j][1] # tag
get(r, tag) == IF HasTag(r, tag) THEN r[IndexOf(r, tag)][2] ELSE None

\* (variant: a new element is added whether or not the tag exists)
set_append(r, tag, value) == Append(r, <<tag, value>>)
\* ComicRack._set on the in-memory document.
set(r, tag, value) ==
    IF HasTag(r, tag) THEN [r EXCEPT ![IndexOf(r, tag)] = <<tag, value>>]
    ELSE Append(r, <<tag, value>>)

\* (variant: the file is written once, when it does not exist yet)
write_xml_once(w, r, t) ==
    IF w.tree[Sidecar].kind = "none"
    THEN [w EXCEPT !.tree[Sidecar] = XmlFile(t, ToXml(r), TRUE)] ELSE w
\* ComicRack._set, "Save xml file": the sidecar is rewritten at time t.
write_xml(w, r, t) == [w EXCEPT !.tree[Sidecar] = XmlFile(t, ToXml(r), TRUE)]

\* ComicRack._set: update the document, rewrite the whole sidecar file.
\* The caller of an open Book makes at most bound changes and sets the
\* fields tags.
SetField(bound, tags) ==
    /\ pc = "open"
    /\ edits < bound
    /\ \E tag \in tags, value \in Values :
        /\ root' = set(root, tag, value)
        /\ ws' = write_xml(ws, root', now + 1)
        /\ ops' = Append(ops, Op("set", tag, value))
    /\ edits' = edits + 1
    /\ err' = "none"
    /\ UNCHANGED <<fs, path, pc, input_format, output_format, content_old,
                   books, opened, fs0, ws0, wsBase>>

meta_set == SetField(MaxEdits, {"Title"})

\* ComicRack._get called by the caller: the value read is logged, nothing
\* changes.
meta_get ==
    /\ pc = "open"
    /\ Len(ops) < MaxCalls
    /\ \E tag \in Tags : ops' = Append(ops, Op("get", tag, get(root, tag)))
    /\ UNCHANGED <<fs, ws, path, pc, input_format, output_format, content_old,
                   root, err, books, opened, fs0, ws0, wsBase, edits>>

\* The strings callers assign to Book.format.
FormatStrs == {"cbz", "cbr", "pdf", "CBZ", "zip"}

\* (variant: the string is assigned unchecked)
format_set_unchecked ==
    /\ pc \in {"new", "open"}
    /\ \E s \in FormatStrs :
        /\ output_format' = Lower(s)
        /\ err' = "none"
    /\ UNCHANGED <<fs, ws, path, pc, input_format, content_old, root, ops,
                   books, opened, fs0, ws0, wsBase, edits>>

\* (variant: the setter changes the format of the Book, input and output)
format_set_both ==
    /\ pc \in {"new", "open"}
    /\ \E s \in FormatStrs :
        IF Lower(s) \in Formats
        THEN /\ output_format' = Lower(s)
             /\ input_format' = Lower(s)
             /\ err' = "none"
        ELSE /\ err' = "ValueError"
             /\ UNCHANGED <<input_format, output_format>>
    /\ UNCHANGED <<fs, ws, path, pc, content_old, root, ops,
                   books, opened, fs0, ws0, wsBase, edits>>

\* Book.format setter: lower(), one of the three or ValueError.
format_set ==
    /\ pc \in {"new", "open"}
    /\ \E s \in FormatStrs :
        IF Lower(s) \in Formats
        THEN /\ output_format' = Lower(s)
             /\ err' = "none"
        ELSE /\ err' = "ValueError"
             /\ UNCHANGED output_format
    /\ UNCHANGED <<fs, ws, path, pc, input_format, content_old, root, ops,
                   books, opened, fs0, ws0, wsBase, edits>>

\* ----------------------------------------------------------------- close
\* Book.close up to the decision: is_valid() and is_changed(), then pack()
\* chooses the strategy of the output format and calls backup().
close ==
    /\ pc \in {"open", "new", "exc"}
    /\ fs0' = fs
    /\ ws0' = ws
    /\ LET f == fs[<<path, FALSE>>]
           v == is_valid(input_format, f)
           c == is_changed(input_format, output_format, ws, content_old)
           tested == IF input_format \in Formats
                     THEN <<Op("test", input_format, v)>> ELSE <<>>
       IN  /\ ops' = ops \o <<Op("close", None, "ok")>> \o tested
           /\ IF v \notin {"True", "False"}
              THEN pc' = "raised" /\ err' = v
              ELSE IF v = "False"
              THEN pc' = "c_cleanup" /\ err' = "none"
              ELSE IF c \notin {"True", "False"}
              THEN pc' = "raised" /\ err' = c
              ELSE IF c = "False"
              THEN pc' = "c_cleanup" /\ err' = "none"
              ELSE IF output_format \in Formats
              THEN pc' = "c_unlink" /\ err' = "none"
              ELSE pc' = "raised" /\ err' = "TypeError"
    /\ UNCHANGED <<fs, ws, path, input_format, output_format, content_old,
                   root, books, opened, wsBase, edits>>

\* (variant: an existing <name>.<ext>.bak is left for the rename to replace)
backup_unlink_skip ==
    /\ pc = "c_unlink"
    /\ pc' = "c_rename"
    /\ UNCHANGED <<fs, ws, path, input_format, output_format, content_old,
                   root, err, ops, books, opened, fs0, ws0, wsBase, edits>>

\* Book.backup, first half: unlink an existing <name>.<ext>.bak.
backup_unlink ==
    /\ pc = "c_unlink"
    /\ LET b == <<path, TRUE>> IN
       IF fs[b].kind = "none"
       THEN /\ pc' = "c_rename"
            /\ UNCHANGED <<fs, err, ops>>
       ELSE \/ /\ fs' = [fs EXCEPT ![b] = NoFile]
               /\ ops' = Append(ops, OpAt("unlink", None, "ok", b))
               /\ pc' = "c_rename"
               /\ UNCHANGED err
            \/ /\ ops' = Append(ops, OpAt("unlink", None, "OSError", b))
               /\ pc' = "raised"
               /\ err' = "OSError"
               /\ UNCHANGED fs
    /\ UNCHANGED <<ws, path, input_format, output_format, content_old,
                   root, books, opened, fs0, ws0, wsBase, edits>>

\* (variant: the archive is left in place and packed over)
backup_rename_skip ==
    /\ pc = "c_rename"
    /\ pc' = "c_pack"
    /\ UNCHANGED <<fs, ws, path, input_format, output_format, content_old,
                   root, err, ops, books, opened, fs0, ws0, wsBase, edits>>

\* (variant: a backup of an earlier run is kept, the archive is dropped)
backup_rename_first ==
    /\ pc = "c_rename"
    /\ LET a == <<path, FALSE>>
           b == <<path, TRUE>>
       IN  /\ fs[a].kind # "none"
           /\ fs' = [fs EXCEPT ![b] = IF fs0[b].kind # "none" THEN fs0[b] ELSE fs[a],
                               ![a] = NoFile]
           /\ ops' = Append(ops, OpAt("rename", None, "ok", b))
           /\ pc' = "c_pack"
           /\ UNCHANGED err
    /\ UNCHANGED <<ws, path, input_format, output_format, content_old,
                   root, books, opened, fs0, ws0, wsBase, edits>>

\* Book.backup, second half: rename the archive to <name>.<ext>.bak.
backup_rename ==
    /\ pc = "c_rename"
    /\ LET a == <<path, FALSE>>
           b == <<path, TRUE>>
       IN  \/ /\ fs[a].kind # "none"
              /\ fs' = [fs EXCEPT ![b] = fs[a], ![a] = NoFile]
              /\ ops' = Append(ops, OpAt("rename", None, "ok", b))
              /\ pc' = "c_pack"
              /\ UNCHANGED err
           \/ /\ ops' = Append(ops, OpAt("rename", None, "OSError", b))
              /\ pc' = "raised"
              /\ err' = "OSError"
              /\ UNCHANGED fs
    /\ UNCHANGED <<ws, path, input_format, output_format, content_old,
                   root, books, opened, fs0, ws0, wsBase, edits>>

\* The kind of file a strategy writes.
KindOf(outf) == CASE outf = "cbz" -> "zip" [] outf = "cbr" -> "rar" [] OTHER -> "pdf"

\* What a strategy stores: zip -r and rar a -r store files and directories,
\* Cbz._my_zip (dirs = FALSE) stores regular files only.
Stored(tree, dirs) ==
    [p \in WsPaths |-> IF tree[p].kind = "dir" /\ ~dirs THEN NoEntry ELSE tree[p]]
\* zip and rar update an existing archive: its other entries stay.
Merged(old, tree) ==
    [p \in WsPaths |-> IF tree[p].kind # "none" THEN tree[p] ELSE old[p]]
\* Pdf.pack: one page per regular file whose suffix is one of '.jpg',
\* '.jpeg', '.png', '.gif' as written (ImageSuffixes: the names of WsPaths
\* with such a suffix), in sorted order.
Images(tree) ==
    SelectSeq(WsOrder, LAMBDA p : tree[p].kind = "file" /\ p \in ImageSuffixes)
PdfPages(tree) == [i \in 1..Len(Images(tree)) |-> tree[Images(tree)[i]].data]

\* The files a successful Container.pack can leave at its target, old being
\* what was there: zip and rar (tool) update an archive of their kind and
\* fail on another file, Cbz._my_zip and Pdf.pack write the file anew.
PackResults(outf, tool, tree, old, s) ==
    CASE outf = "cbz" /\ ~tool -> {Archive("zip", Stored(tree, FALSE), s)}
      [] outf \in {"cbz", "cbr"} /\ tool ->
            IF old.kind = "none"
            THEN {Archive(KindOf(outf), Stored(tree, TRUE), s)}
            ELSE IF old.kind = KindOf(outf) /\ old.complete
            THEN {Archive(KindOf(outf), Merged(old.tree, Stored(tree, TRUE)), s)}
            ELSE {}
      [] OTHER ->
            {[Archive("pdf", EmptyTree, s) EXCEPT !.pages = PdfPages(tree)]}

\* What a failed pack raises: the archiver fails, rar is not installed.
PackErrors(outf) ==
    CASE outf = "cbz" -> {"CalledProcessError"}
      [] outf = "cbr" -> {"CalledProcessError", "FileNotFoundError"}
      [] OTHER -> {"RuntimeError"}

\* Which implementations a strategy can take: Cbz.pack runs zip when
\* which('zip') finds it and Cbz._my_zip otherwise, Cbr.pack needs rar,
\* Pdf.pack is a library call.
Tools(outf) ==
    CASE outf = "cbz" -> BOOLEAN [] outf = "cbr" -> {TRUE} [] OTHER -> {FALSE}

\* Container.pack of strategy outf on path.with_suffix(outf) and the
\* working directory.  The caller gave the Book a relative or an absolute
\* path; pack is the one place that tells them apart.  zip and rar run with
\* cwd = working directory, so a relative archive name is resolved there
\* (inner); a library call resolves it against the directory of the
\* process, where the archive lies.
pack_with(outf) ==
    /\ pc = "c_pack"
    /\ LET target == <<outf, FALSE>> IN
       IF ~ws.exists
       THEN /\ pc' = "raised"
            /\ err' = "AttributeError"
            /\ UNCHANGED <<fs, ws, ops>>
       ELSE \E tool \in Tools(outf), relative \in BOOLEAN :
            LET inside == tool /\ relative
                named == Op("name", outf, IF relative THEN "relative" ELSE "absolute")
                old == IF inside THEN ws.inner ELSE fs[target]
                partial == [Archive(KindOf(outf), EmptyTree, serial + 1)
                               EXCEPT !.complete = FALSE]
            IN
            \/ \E r \in PackResults(outf, tool, ws.tree, old, serial + 1) :
                 /\ fs' = IF inside THEN fs ELSE [fs EXCEPT ![target] = r]
                 /\ ws' = IF inside THEN [ws EXCEPT !.inner = r] ELSE ws
                 /\ ops' = ops \o <<named, OpAt("pack", outf, "ok", target)>>
                 /\ pc' = "c_cleanup"
                 /\ UNCHANGED err
            \/ \E e \in PackErrors(outf), wrote \in BOOLEAN :
                 /\ wrote => e # "FileNotFoundError"
                 /\ fs' = IF wrote /\ ~inside THEN [fs EXCEPT ![target] = partial]
                          ELSE fs
                 /\ ws' = IF wrote /\ inside THEN [ws EXCEPT !.inner = partial]
                          ELSE ws
                 /\ ops' = ops \o <<named, OpAt("pack", outf, e, target)>>
                 /\ pc' = "raised"
                 /\ err' = e
    /\ UNCHANGED <<path, input_format, output_format, content_old, root,
                   books, opened, fs0, ws0, wsBase, edits>>

\* (variant: the strategy of the input format packs)
pack_input == pack_with(input_format)
\* Book.pack after backup(): the strategy of the output format packs.
pack == pack_with(output_format)

\* Book.close, last statement: TemporaryDirectory.cleanup().
cleanup ==
    /\ pc = "c_cleanup"
    /\ IF ws.exists
       THEN /\ ws' = NoDir
            /\ ops' = Append(ops, Op("cleanup", None, "ok"))
            /\ pc' = "closed"
            /\ UNCHANGED err
       ELSE /\ pc' = "raised"
            /\ err' = "AttributeError"
            /\ UNCHANGED <<ws, ops>>
    /\ UNCHANGED <<fs, path, input_format, output_format, content_old,
                   root, books, opened, fs0, ws0, wsBase, edits>>

Next ==
    \/ BookInit
    \/ open
    \/ write_file
    \/ touch
    \/ remove
    \/ mkdir
    \/ meta_set
    \/ format_set
    \/ close
    \/ backup_unlink
    \/ backup_rename
    \/ pack
    \/ cleanup

Spec == Init /\ [][Next]_vars

\* ------------------------------------- repeated runs on one archive path
\* Books constructed one after the other on book.cbz; the caller of each
\* sets metadata fields, one more with every Book, and closes it.
CycleNext ==
    \/ BookOn({"cbz"})
    \/ open
    \/ SetField(books, {"Title"})
    \/ close
    \/ backup_unlink
    \/ backup_rename
    \/ pack
    \/ cleanup

CycleSpec == Init /\ [][CycleNext]_vars

\* ------------------------------------------------- the context manager
\* Book.__enter__: open(), return self.  When open() raises, the with
\* statement is left and __exit__ is not called.
enter == pc = "new" /\ open

\* The body of the with statement raises: the Book stays open until
\* __exit__ has run (pc = "exc").
body_raise ==
    /\ pc = "open"
    /\ pc' = "exc"
    /\ err' = "Exception"
    /\ ops' = Append(ops, Op("raise", None, "Exception"))
    /\ UNCHANGED <<fs, ws, path, input_format, output_format, content_old,
                   root, books, opened, fs0, ws0, wsBase, edits>>

\* (variant: __exit__ closes the Book only when the body did not raise, and
\* drops the working directory otherwise)
exit_unless_raised ==
    \/ pc = "open" /\ close
    \/ /\ pc = "exc"
       /\ pc' = "raised"
       /\ ws' = NoDir
       /\ fs0' = fs
       /\ ws0' = ws
       /\ UNCHANGED <<fs, path, input_format, output_format, content_old,
                      root, err, ops, books, opened, wsBase, edits>>

\* Book.__exit__: close(), whatever exc_type is; the steps of close()
\* follow.  It returns None, so an exception of the body is raised again.
exit == pc \in {"open", "exc"} /\ close

\* with Book(path) as comic: <body>, one Book after the other.
WithNext ==
    \/ BookInit
    \/ enter
    \/ write_file
    \/ touch
    \/ remove
    \/ mkdir
    \/ meta_set
    \/ body_raise
    \/ exit
    \/ backup_unlink
    \/ backup_rename
    \/ pack
    \/ cleanup

WithSpec == Init /\ [][WithNext]_vars

\* ------------------------------------------- the ComicRack object alone
\* The directories a ComicRack is constructed over: no sidecar, a sidecar
\* with one field, a sidecar with an empty field and another one, a sidecar
\* that does not parse.
TwoTree == [EmptyTree EXCEPT !["p1.png"] = File(0, 1),
               ![Sidecar] = XmlFile(0, <<<<"Series", "">>, <<"Title", "Obelix">>>>, TRUE)]
MetaDirs == {PlainTree, TitledTree, TwoTree, BadXmlTree}

\* ComicRack(working_dir), as the last statement of Book.open leaves it.
MetaInit ==
    /\ \E t \in MetaDirs :
        /\ ws = TempDir(t)
        /\ root = ComicRackInit(t)
        /\ wsBase = t
        /\ content_old = Snap(snapshot(t))
        /\ opened = Archive("zip", t, 1)
        /\ fs = [a \in ArchPaths |->
                   IF a = <<"cbz", FALSE>> THEN Archive("zip", t, 1) ELSE NoFile]
    /\ fs0 = fs
    /\ path = "cbz"
    /\ pc = "open"
    /\ input_format = "cbz"
    /\ output_format = "cbz"
    /\ err = "none"
    /\ ops = <<>>
    /\ books = 1
    /\ ws0 = NoDir
    /\ edits = 0

MetaNext ==
    \/ SetField(MaxCalls, Tags)
    \/ meta_get

MetaSpec == MetaInit /\ [][MetaNext]_vars

\* ================================================================ claims
ClosePhase == pc \in {"c_unlink", "c_rename", "c_pack", "c_cleanup", "closed", "raised"}
IsOpened == opened.kind # "none"
Tried(o) == \E i \in DOMAIN ops : ops[i].op = o
Did(o) == \E i \in DOMAIN ops : ops[i].op = o /\ ops[i].res = "ok"
Orig == <<path, FALSE>>
Bak == <<path, TRUE>>
\* The container test passed on the archive as close() found it.
Valid0 == is_valid(input_format, fs0[Orig]) = "True"
\* A snapshot of the working directory as close() found it differs.
SnapDiffers0 == ws0.exists /\ Snap(snapshot(ws0.tree)) # content_old
Changed0 == input_format # output_format \/ SnapDiffers0
\* The caller changed nothing between open() and close().
Untouched0 == ws0.tree = wsBase

\* C1: during and after close() on an opened Book, whatever fails, the archive
\* that was opened lies at its original path or at <name>.<ext>.bak.
C1_OriginalKept ==
    (IsOpened /\ (pc = "open" \/ ClosePhase)) =>
        (fs[Orig] = opened \/ fs[Bak] = opened)
\* A repack failed after the rename: the original is the .bak.
C1_Witness ==
    /\ IsOpened /\ pc = "raised" /\ Tried("pack")
    /\ fs[Bak] = opened /\ fs[Orig] # opened

\* C2: a Book opened and closed with no change of the working directory and
\* the output format left alone is reported unchanged; close() unlinks,
\* renames and packs nothing and every archive file stays as it was.
C2_NoopClose ==
    (IsOpened /\ ClosePhase /\ Untouched0 /\ output_format = input_format) =>
        /\ pc \in {"c_cleanup", "closed"}
        /\ is_changed(input_format, output_format, ws0, content_old) = "False"
        /\ ~Tried("unlink") /\ ~Tried("rename") /\ ~Tried("pack")
        /\ fs = fs0
C2_Witness ==
    /\ IsOpened /\ pc = "closed" /\ Untouched0 /\ output_format = input_format
    /\ fs[Bak] = OldBak /\ fs[Orig] = opened

\* C3: close() renames and packs exactly when the container test passes on
\* the archive and (the formats differ or the snapshot differs): otherwise it
\* neither unlinks, renames nor packs; when so, it reaches the rename, and
\* unless a step raises it renames and packs; pack is the strategy of the
\* output format on <name>.<output format>, after the rename.
C3_RepackIff ==
    ClosePhase =>
        /\ (Tried("unlink") \/ Tried("rename") \/ Tried("pack")) => (Valid0 /\ Changed0)
        /\ (Valid0 /\ Changed0 /\ pc \in {"c_cleanup", "closed"}) =>
               (Did("rename") /\ Did("pack"))
        /\ (Valid0 /\ Changed0 /\ pc = "raised") =>
               (Tried("unlink") \/ Tried("rename"))
        /\ \A i \in DOMAIN ops : ops[i].op = "pack" =>
               /\ ops[i].fmt = output_format
               /\ ops[i].arg = <<output_format, FALSE>>
               /\ \E j \in 1..(i - 1) : ops[j].op = "rename" /\ ops[j].res = "ok"
\* A close that repacked because the snapshot alone differs.
C3_Witness ==
    /\ pc = "closed" /\ Did("rename") /\ Did("pack")
    /\ input_format = output_format /\ SnapDiffers0

\* C4 (as claimed): an opened Book whose output format was set to another
\* kind and whose working directory was not touched: after a close() that
\* did not raise, a new complete archive of the new kind is at <name>.<new>,
\* the opened archive is at <name>.<old>.bak and nothing is at <name>.<old>.
C4_FormatAlone ==
    (IsOpened /\ pc = "closed" /\ Untouched0 /\ output_format # input_format) =>
        /\ fs[<<output_format, FALSE>>].kind = KindOf(output_format)
        /\ fs[<<output_format, FALSE>>].complete
        /\ fs[<<output_format, FALSE>>].ser > opened.ser
        /\ fs[<<output_format, FALSE>>] # fs0[<<output_format, FALSE>>]
        /\ fs[Bak] = opened
        /\ fs[Orig].kind = "none"

\* The caller's changes of the working directory were metadata sets only.
OnlySets == \A i \in DOMAIN ops : ops[i].op # "edit"
\* The value the last set of a tag gave it.
LastSet(tag) ==
    LET I == {i \in DOMAIN ops : ops[i].op = "set" /\ ops[i].fmt = tag}
    IN  ops[CHOOSE i \in I : \A j \in I : j <= i].res
WasSet(tag) == \E i \in DOMAIN ops : ops[i].op = "set" /\ ops[i].fmt = tag
\* The content of the element tag in a sidecar document.
XmlHas(doc, tag, value) == \E i \in DOMAIN doc : doc[i] = <<tag, value>>

\* C5 (as claimed): an opened zip-like Book on which metadata fields were set: the
\* snapshot at close differs from the baseline, and a close() that did not
\* raise left the opened archive at <name>.<ext>.bak and a new zip at
\* <name>.cbz holding the files of the opened archive and a sidecar in which
\* each field set holds the value last given.
C5_MetadataPersisted ==
    (IsOpened /\ input_format = "cbz" /\ output_format = "cbz" /\ ClosePhase
        /\ OnlySets /\ Tried("set")) =>
        /\ SnapDiffers0
        /\ pc # "c_cleanup" \/ Did("pack")
        /\ pc = "closed" =>
            /\ fs[Bak] = opened
            /\ fs[<<"cbz", FALSE>>].kind = "zip"
            /\ fs[<<"cbz", FALSE>>].complete
            /\ fs[<<"cbz", FALSE>>].ser > opened.ser
            /\ \A p \in WsPaths \ {Sidecar} :
                   opened.tree[p].kind = "file" =>
                       /\ fs[<<"cbz", FALSE>>].tree[p].kind = "file"
                       /\ fs[<<"cbz", FALSE>>].tree[p].data = opened.tree[p].data
            /\ fs[<<"cbz", FALSE>>].tree[Sidecar].kind = "file"
            /\ fs[<<"cbz", FALSE>>].tree[Sidecar].wf
            /\ \A tag \in Tags : WasSet(tag) =>
                   XmlHas(fs[<<"cbz", FALSE>>].tree[Sidecar].doc, tag, LastSet(tag))

\* C6 (as claimed): after close() returned or raised on an opened Book the
\* working directory no longer exists.
C6_WorkspaceDestroyed ==
    (IsOpened /\ pc \in {"closed", "raised"}) => ~ws.exists

\* C7 (as claimed): an open() that fails because the container test is false
\* or the format is not recognized has created no working directory.
C7_FailedOpenLeavesNothing ==
    (pc = "failed" /\ is_valid(input_format, fs[Orig]) = "False") =>
        (~ws.exists /\ ~Tried("mkdtemp"))

\* C8 (as claimed): format detection gives the kind of .cbz, .cbr and .pdf,
\* any other extension is the UnknownFormat error (ValueError, as the format
\* setter raises), and open() on such a path fails with it, not with the
\* error of an invalid container (TypeError).
C8_FormatDetection ==
    /\ format("cbz") = "cbz" /\ format("cbr") = "cbr" /\ format("pdf") = "pdf"
    /\ (pc = "failed" /\ Lower(path) \notin Formats) =>
        (input_format # None /\ err = "ValueError")

\* C9: a strategy unpacks only after its own test returned true on the
\* archive; a .cbr whose first six bytes are not the rar signature makes
\* open() fail with the invalid-container error, nothing unpacked, no
\* baseline snapshot.
C9_TestBeforeUnpack ==
    /\ \A i \in DOMAIN ops : ops[i].op = "unpack" =>
           \E j \in 1..(i - 1) :
               ops[j].op = "test" /\ ops[j].fmt = ops[i].fmt /\ ops[j].res = "True"
    /\ (pc \in {"open", "failed"} /\ input_format = "cbr"
            /\ fs[Orig].kind # "none" /\ HeadOf(fs[Orig].kind) # RarMagic) =>
           /\ pc = "failed"
           /\ err = "TypeError"
           /\ ~Tried("unpack")
           /\ content_old = NoSnap
C9_Witness ==
    /\ pc = "failed" /\ input_format = "cbr" /\ fs[Orig].kind = "junk"
    /\ err = "TypeError" /\ ~Tried("unpack")

\* C10 (as claimed): the validity check of a .pdf path is true by extension,
\* so open() on a well-formed pdf reaches the Open state.
C10_PdfByExtension ==
    (input_format = "pdf" /\ fs[Orig].kind = "pdf" /\ pc \in {"open", "failed"}) =>
        (is_valid(input_format, fs[Orig]) = "True" /\ pc = "open")

\* A step of the format setter: the Book stays where it is and the caller
\* changes nothing in the working directory.
SetterStep == pc' = pc /\ pc \in {"new", "open"} /\ edits' = edits

\* C11: assigning the output format a string that names one of the three
\* kinds (in any letter case) sets the output format to that kind; any other
\* string raises ValueError and leaves the output format as it was; either
\* way the input format, the baseline snapshot, the working directory and
\* the archive files are unchanged.
C11_SetterFrame ==
    [][SetterStep =>
        /\ \E s \in FormatStrs :
              \/ /\ Lower(s) \in Formats
                 /\ output_format' = Lower(s)
                 /\ err' = "none"
              \/ /\ Lower(s) \notin Formats
                 /\ output_format' = output_format
                 /\ err' = "ValueError"
        /\ output_format' \in Formats \/ output_format' = output_format
        /\ UNCHANGED <<input_format, content_old, ws, fs>>]_vars
\* An open Book whose output format was changed, then a bad string refused.
C11_Witness ==
    /\ pc = "open" /\ err = "ValueError"
    /\ output_format \in Formats /\ output_format # input_format

\* The document the ComicRack object loaded when it was constructed.
Loaded == ComicRackInit(wsBase)
\* The value a tag has before the i-th logged operation: that of the last
\* set of it, else the one loaded, else None.
SetsBefore(i, tag) == {j \in 1..(i - 1) : ops[j].op = "set" /\ ops[j].fmt = tag}
ValueAt(i, tag) ==
    IF SetsBefore(i, tag) = {} THEN get(Loaded, tag)
    ELSE ops[CHOOSE j \in SetsBefore(i, tag) : \A k \in SetsBefore(i, tag) : k <= j].res
Count(r, tag) == Cardinality({i \in DOMAIN r : r[i][1] = tag})
NewTags == {tag \in Tags : WasSet(tag) /\ ~HasTag(Loaded, tag)}

\* C12: after any sequence of sets, every get of a field returns the value of
\* the last set of that field, or what was loaded when it was never set, None
\* when it was not loaded either; a set replaces the value of a field that
\* exists and appends a field otherwise, so no field occurs twice, and the
\* loaded fields keep their places.
C12_SetGet ==
    pc = "open" =>
        /\ \A i \in DOMAIN ops :
               ops[i].op = "get" => ops[i].res = ValueAt(i, ops[i].fmt)
        /\ \A tag \in Tags :
               /\ get(root, tag) = ValueAt(Len(ops) + 1, tag)
               /\ Count(root, tag) <= 1
               /\ (~WasSet(tag) /\ ~HasTag(Loaded, tag)) => get(root, tag) = None
        /\ Len(root) = Len(Loaded) + Cardinality(NewTags)
        /\ \A i \in DOMAIN Loaded : root[i][1] = Loaded[i][1]
\* A loaded field set twice, the other loaded field read afterwards.
C12_Witness ==
    /\ pc = "open" /\ Len(ops) = 3
    /\ ops[1].op = "set" /\ ops[2].op = "set" /\ ops[3].op = "get"
    /\ ops[1].fmt = "Title" /\ ops[2].fmt = "Title" /\ ops[1].res # ops[2].res
    /\ ops[3].fmt = "Series" /\ HasTag(Loaded, "Title") /\ HasTag(Loaded, "Series")

\* The (path, modification time) pairs of the regular files of a tree, in
\* path order.
RegularFiles(tree) == SelectSeq(WsOrder, LAMBDA p : tree[p].kind = "file")
FileSnap(tree) ==
    [i \in 1..Len(RegularFiles(tree)) |->
        <<RegularFiles(tree)[i], tree[RegularFiles(tree)[i]].mtime>>]

\* C13 (as claimed): the snapshot of the working directory of an open Book
\* holds one (path, modification time) pair per regular file and nothing
\* else, in path order, and the comparison of is_changed reports a change
\* exactly when the regular files or their times differ from those of the
\* baseline.
C13_SnapshotExact ==
    pc = "open" =>
        /\ snapshot(ws.tree) = FileSnap(ws.tree)
        /\ content_old = Snap(FileSnap(wsBase))
        /\ (is_changed(input_format, input_format, ws, content_old) = "True")
               <=> (FileSnap(ws.tree) # FileSnap(wsBase))

\* open() was never called on the Book.
NeverOpened == pc # "idle" /\ ~Tried("mkdtemp")

\* C14 (as claimed): close() on a Book on which open() was never called,
\* whatever its output format was set to, unlinks, renames and creates no
\* file: the archive directory stays as close() found it.
C14_CloseUnopened ==
    (NeverOpened /\ ClosePhase) =>
        /\ fs = fs0
        /\ ~Tried("unlink") /\ ~Tried("rename") /\ ~Tried("pack")

\* A complete archive written by this Book lies at the pack target or in
\* the working directory.
NewArchive ==
    \/ /\ output_format \in Formats
       /\ fs[<<output_format, FALSE>>].complete
       /\ fs[<<output_format, FALSE>>].ser = serial + 1
    \/ ws.inner.complete

\* C15: in every close(), an existing .bak is unlinked before the archive is
\* renamed to .bak, and the archive is renamed before pack is invoked; a
\* rename is never undone; so when pack fails (the archiver fails or is not
\* installed) the archive close() found is the .bak and there is no complete
\* new archive.
C15_CloseOrder ==
    ClosePhase =>
        /\ \A i \in DOMAIN ops : ops[i].op = "rename" =>
               /\ \A j \in DOMAIN ops : ops[j].op = "unlink" => j < i
               /\ fs0[Bak].kind # "none" =>
                      \E j \in 1..(i - 1) : ops[j].op = "unlink" /\ ops[j].res = "ok"
        /\ \A i \in DOMAIN ops : ops[i].op = "pack" =>
               \E j \in 1..(i - 1) : ops[j].op = "rename" /\ ops[j].res = "ok"
        /\ Did("rename") => (fs[Bak] = fs0[Orig] /\ fs[Orig] # fs0[Orig])
        /\ (pc = "raised" /\ Tried("pack") /\ ~Did("pack")) =>
               (fs[Bak] = fs0[Orig] /\ ~NewArchive)
\* rar is not installed: the old .bak is gone, the archive is the .bak.
C15_Witness ==
    /\ pc = "raised" /\ err = "FileNotFoundError" /\ Tried("pack")
    /\ Did("unlink") /\ Did("rename")
    /\ fs[Bak] = fs0[Orig] /\ fs[Orig].kind = "none" /\ fs0[Bak] = OldBak

\* close() found a <name>.<ext>.bak of an earlier run.
HadBak == fs0[Bak].kind # "none"

\* After the rename of a close(), the one file <name>.<ext>.bak is the
\* archive that close() found, and a backup of an earlier run is gone.
BakIsLastInput ==
    (ClosePhase /\ Did("rename")) =>
        /\ fs[Bak] = fs0[Orig]
        /\ HadBak => (fs[Bak] # fs0[Bak] /\ Did("unlink"))

\* C16 (as claimed): over successive open/edit/close runs on one path, the
\* .bak holds the input of the most recent run that repacked, and a .bak of
\* an earlier run never makes close() fail.
C16_BakNeverFails ==
    /\ BakIsLastInput
    /\ (ClosePhase /\ HadBak /\ Tried("unlink")) => Did("unlink")

\* C16: over successive open/edit/close runs on one path, the .bak holds the
\* input of the most recent run that repacked, earlier backups are gone, and
\* a .bak of an earlier run stops close() only when the operating system
\* refuses to unlink it (OSError), in which case no file has changed.
C16_BackupOverwritten ==
    /\ BakIsLastInput
    /\ (ClosePhase /\ HadBak /\ Tried("unlink") /\ ~Did("unlink")) =>
           (pc = "raised" /\ err = "OSError" /\ fs = fs0)
    /\ (ClosePhase /\ HadBak /\ Did("unlink") /\ pc = "raised") =>
           (Tried("rename") \/ Tried("pack"))
\* The second run on book.cbz closed: its .bak is the archive the first run
\* packed, the .bak of the first run (the initial archive) is gone.
C16_Witness ==
    /\ pc = "closed" /\ books = 2 /\ Did("unlink") /\ Did("pack")
    /\ fs0[Bak].ser = 1 /\ fs[Bak].ser = 3 /\ fs[Orig].ser = 4
    /\ fs[Bak].complete /\ fs[Orig].complete

\* A sidecar document and an in-memory document hold the same fields with
\* the same values (an element without text is written empty).
SameFields(doc, r) ==
    /\ Len(doc) = Len(r)
    /\ \A i \in DOMAIN doc :
           /\ doc[i][1] = r[i][1]
           /\ doc[i][2] = r[i][2] \/ (r[i][2] = None /\ doc[i][2] = "")

\* C17: constructing the ComicRack object and any number of gets leave the
\* sidecar as it was (absent when it was absent); once a set has completed
\* the sidecar is a well-formed file written by that set, holding the whole
\* in-memory document, field for field.
C17_WriteThrough ==
    pc = "open" =>
        /\ ~Tried("set") => ws.tree[Sidecar] = wsBase[Sidecar]
        /\ Tried("set") =>
               /\ ws.tree[Sidecar].kind = "file"
               /\ ws.tree[Sidecar].wf
               /\ ws.tree[Sidecar].mtime = now
               /\ ws.tree[Sidecar].doc = ToXml(root)
               /\ SameFields(ws.tree[Sidecar].doc, root)
\* No sidecar at first; a get, then two fields set: the file holds both.
C17_Witness ==
    /\ pc = "open" /\ wsBase[Sidecar].kind = "none" /\ Len(ops) = 3
    /\ ops[1].op = "get" /\ ops[2].op = "set" /\ ops[3].op = "set"
    /\ Len(root) = 2 /\ Len(ws.tree[Sidecar].doc) = 2

\* C18: a ComicRack object constructed over a directory whose sidecar does
\* not parse starts with the empty document: every get returns None until a
\* field is set, the file stays as it was until the first set, and the
\* first set replaces it with a well-formed document of that one field.
C18_MalformedSidecar ==
    (pc = "open" /\ wsBase[Sidecar].kind = "file" /\ ~wsBase[Sidecar].wf) =>
        /\ \A i \in DOMAIN ops :
               (ops[i].op = "get" /\ SetsBefore(i, ops[i].fmt) = {}) => ops[i].res = None
        /\ ~Tried("set") =>
               /\ root = <<>>
               /\ ws.tree[Sidecar] = wsBase[Sidecar]
        /\ \A i \in DOMAIN ops :
               (ops[i].op = "set" /\ \A j \in 1..(i - 1) : ops[j].op # "set") =>
                   /\ ws.tree[Sidecar].wf
                   /\ (\A j \in (i + 1)..Len(ops) : ops[j].op # "set") =>
                          ws.tree[Sidecar].doc = <<<<ops[i].fmt, ops[i].res>>>>
\* A get of the field whose text lies in the broken file, then the other
\* field set: the file holds that one field.
C18_Witness ==
    /\ pc = "open" /\ wsBase[Sidecar].kind = "file" /\ ~wsBase[Sidecar].wf
    /\ Len(ops) = 2 /\ ops[1].op = "get" /\ ops[1].fmt = "Title"
    /\ ops[2].op = "set" /\ ops[2].fmt = "Series"
    /\ ws.tree[Sidecar].doc = <<<<"Series", "Asterix">>>>

\* The names of WsPaths that are raster images.
RasterImages == {"P0.JPG", "p1.png", "p2.png"}
\* The images of a tree in path order, and the pages they make.
ImageFiles(tree) ==
    SelectSeq(WsOrder, LAMBDA p : tree[p].kind = "file" /\ p \in RasterImages)
ImagePages(tree) == [i \in 1..Len(ImageFiles(tree)) |-> tree[ImageFiles(tree)[i]].data]

\* C19 (as claimed): a Book whose output format was set to pdf and whose
\* close() packed: the document at <name>.pdf has one page per image file of
\* the working directory, in sorted path order, and no page for any other
\* file.
C19_PdfPages ==
    (IsOpened /\ pc \in {"c_cleanup", "closed"} /\ output_format = "pdf"
        /\ Did("pack")) =>
        /\ fs[<<"pdf", FALSE>>].kind = "pdf"
        /\ fs[<<"pdf", FALSE>>].pages = ImagePages(ws0.tree)

\* C20 (as claimed): whenever close() is about to invoke pack, no file lies
\* at <name>.<output format>, for every pair of input and output format.
C20_PackTargetFree ==
    (pc = "c_pack" /\ ws.exists /\ output_format \in Formats) =>
        fs[<<output_format, FALSE>>].kind = "none"

\* C22: the input format of a Book is, in every state, what the format
\* getter derives from the suffix of its path, whatever the output format
\* has been set to; it changes only when a Book is constructed; the output
\* format is the input format at construction and changes afterwards only
\* by an assignment of one of the three kinds that did not raise.
C22_InputFormatFixed ==
    /\ [](pc # "idle" =>
            /\ input_format = format(path)
            /\ input_format \in Formats \cup {None})
    /\ [][/\ books' # books => output_format' = input_format'
          /\ books' = books =>
                /\ input_format' = input_format
                /\ path' = path
                /\ output_format' # output_format =>
                       (SetterStep /\ err' = "none" /\ output_format' \in Formats)]_vars
\* A Book on book.CBZ, open, its output format set to pdf: the getter still
\* gives cbz.
C22_Witness ==
    /\ pc = "open" /\ path = "CBZ" /\ output_format = "pdf"
    /\ format(path) = "cbz" /\ input_format = "cbz"

\* The positions in the log of the calls of close(), and of what the body
\* of a with statement did.
Closes == {i \in DOMAIN ops : ops[i].op = "close"}
BodyOps == {i \in DOMAIN ops : ops[i].op \in {"edit", "set", "raise"}}

\* C21: under the with statement, a Book whose open() succeeded in
\* __enter__ gets exactly one close() when the body is left, normally or by
\* an exception, after everything the body did; that close() repacks exactly
\* when the archive is valid and changed, so changes made before an
\* exception are packed; when open() raised in __enter__ there is no
\* close().
C21_WithClose ==
    /\ pc \in {"new", "open", "exc", "failed"} => Closes = {}
    /\ ClosePhase =>
           /\ Cardinality(Closes) = 1
           /\ Did("unpack")
           /\ \A i \in Closes, j \in BodyOps : j < i
           /\ (Tried("unlink") \/ Tried("rename") \/ Tried("pack")) =>
                  (Valid0 /\ Changed0)
           /\ (Valid0 /\ Changed0 /\ pc \in {"c_cleanup", "closed"}) =>
                  (Did("rename") /\ Did("pack"))
           /\ (Tried("raise") /\ (Tried("edit") \/ Tried("set"))) =>
                  /\ Valid0 /\ SnapDiffers0
                  /\ ws0.tree # wsBase
                  /\ pc = "raised" => (Tried("unlink") \/ Tried("rename"))
\* The body set a field and raised: __exit__ closed the Book and the new
\* archive is at the path.
C21_Witness ==
    /\ pc = "closed" /\ Tried("set") /\ Tried("raise") /\ Did("pack")
    /\ fs[Orig].complete /\ fs[Orig].ser = serial + 1 /\ fs[Bak] = opened
====
